---- MODULE Spec2Model ----
(***************************************************************************)
(* Transaction lifecycle of solana.rpc.async_api.AsyncClient:              *)
(* send_transaction, send_raw_transaction, __post_send_with_confirm and    *)
(* confirm_transaction, run by one task against an RPC node whose ledger   *)
(* height, signature status and wall clock move on their own.              *)
(*                                                                         *)
(* An Optional value is a sequence: <<>> is None, <<v>> is the value v.    *)
(* Every action of the task is one resumption of the coroutine: the        *)
(* pending await returns (or raises) and the code runs to its next await.  *)
(* A blockhash is named by the height of the block it belongs to.          *)
(***************************************************************************)
EXTENDS Integers, Sequences, FiniteSets, TLC

\* ------------------------------------------------------------------ bounds
\* Largest ledger height the network reaches on its own.
MaxHeight == 2
\* Latest wall-clock second at which time still passes before the call begins.
MaxClock == 1
\* Largest sleep_seconds argument, in seconds (0 stands for a sub-second
\* interval such as the default 0.5).
MaxSleep == 1
\* Longest time, in seconds, a request takes to be answered.
MaxLatency == 1
\* Longest time, in seconds, a sleep lasts beyond sleep_seconds.
MaxLate == 1
\* Blocks a blockhash stays valid for (last_valid_block_height - height).
ValidBlocks == 1
\* The BlockhashCache's ttl, in seconds.
TTL == 2
\* Latest wall-clock second told apart while no deadline is pending; later
\* seconds read as MaxTime.
MaxTime == 3

\* confirm_transaction calls running at the same time on one client.
NumCalls == 2

\* Status polls of one run that are followed.
MaxPolls == 3

\* ------------------------------------------------------- program constants
\* async_api.py:1184  timeout = time() + 30
TIMEOUT_SECONDS == 30
\* async_api.py:1154  sleep_seconds: float = 0.5  (a sub-second interval)
SLEEP_SECONDS_DEFAULT == 0

None == <<>>
Some(v) == <<v>>
IsNone(o) == o = <<>>
Val(o) == o[1]

\* ------------------------------------------------------------- commitments
Commitments == {"processed", "confirmed", "finalized"}

\* int(_COMMITMENT_TO_SOLDERS[c]) and int(confirmation_status):
\* processed < confirmed < finalized.
CommitmentRank(c) ==
    CASE c = "processed" -> 0
      [] c = "confirmed" -> 1
      [] c = "finalized" -> 2

\* One entry of GetSignatureStatusesResp.value: None, or a status with an
\* optional confirmation_status.
StatusEntries == [confirmation_status : {None} \cup {Some(c) : c \in Commitments}]
Statuses == {None} \cup {Some(e) : e \in StatusEntries}

\* ------------------------------------------------------------------- state
VARIABLES
    clock,                   \* time(): wall clock, whole seconds
    netStatus,               \* what the node now answers for the signature
    netHeight,               \* the node's current block height
    api,                     \* the public method the task called
    self_commitment,         \* self._commitment
    opts,                    \* the opts argument of the send methods
    arg_recent_blockhash,    \* send_transaction's recent_blockhash argument
    cache_enabled,           \* bool(self.blockhash_cache)
    txopts_skip_default,     \* TxOpts' default for skip_confirmation
    timeout_wanted,          \* the wall-clock budget the caller wants, if any
    tx_sig,                  \* confirm_transaction's tx_sig argument
    commitment,              \* confirm_transaction's commitment argument
    sleep_seconds,           \* confirm_transaction's sleep_seconds argument
    last_valid_block_height, \* confirm_transaction's ceiling argument
    pc,                      \* the await the task is suspended at
    waited,                  \* seconds the pending await has lasted so far
    commitment_rank,
    current_blockheight,
    timeout,
    resp,                    \* resp.value[0] of the last status poll
    outcome,                 \* how confirm_transaction ended
    returned,                \* the response confirm_transaction returned
    result,                  \* how the public method ended
    blockhash_cache,         \* self.blockhash_cache: the entries it holds
    recent_blockhash,        \* send_transaction's recent_blockhash
    st_last_valid_block_height, \* send_transaction's last_valid_block_height
    opts_to_use,
    wire,                    \* the serialized transaction handed to the node
    submit,                  \* history: the submit request
    refresh,                 \* history: the refresh fetch of send_transaction
    refreshed,               \* history: the blockhash the refresh fetch gave
    op,                      \* cache scenario: the last operation on the cache
    got,                     \* cache scenario: what the last get() returned
    lastMarked,              \* cache scenario: the last blockhash marked used
    cacheBefore,             \* cache scenario: the cache as the last get() found it
    calls,                   \* concurrent scenario: the locals of each call
    sends,                   \* concurrent submissions: each task's position
    running,                 \* the task the event loop is executing, if any
    twin,                    \* two runs given the same answers: their locals
    entryClock,              \* history: time() when confirm_transaction began
    confirms,                \* history: calls of confirm_transaction so far
    cacheAtWait,             \* history: the cache when confirm_transaction began
    cancelled,               \* history: the task was cancelled
    lastPolled,              \* history: what the node answered the last poll
    failed,                  \* history: a request of confirm_transaction raised
    everQual,                \* history: the node has shown rank >= target
    qualInTime,              \* history: ... and does so since before the deadline
    expiredFirst,            \* history: the height passed the ceiling before that
    at29                     \* history: ... first at second 29 of the budget

netVars == <<clock, netStatus, netHeight>>
inputVars == <<api, self_commitment, opts, arg_recent_blockhash, cache_enabled,
               txopts_skip_default, timeout_wanted>>
callVars == <<tx_sig, commitment, sleep_seconds, last_valid_block_height>>
cacheOpVars == <<op, got, lastMarked, cacheBefore>>
apartVars == <<cacheOpVars, calls, sends, running, twin>>
argVars == <<inputVars, callVars, apartVars>>
confVars == <<commitment_rank, current_blockheight, timeout, resp>>
endVars == <<outcome, returned, result>>
sendRest == <<recent_blockhash, st_last_valid_block_height, opts_to_use, wire,
              submit, refreshed>>
sendLocals == <<blockhash_cache, sendRest>>
sendVars == <<sendLocals, refresh>>
netHist == <<everQual, qualInTime, expiredFirst, at29>>
entryHist == <<entryClock, confirms, cacheAtWait, cancelled>>
histVars == <<entryHist, lastPolled, failed, netHist>>
taskVars == <<pc, waited, confVars, endVars, sendVars>>
vars == <<netVars, argVars, taskVars, histVars>>

Outcomes == {"Confirmed", "Expired", "TimedOut", "NetworkError"}

\* ----------------------------------------------------------- BlockhashCache
\* An entry is [blockhash, observedAt, used].
\* an entry of exactly ttl seconds still counted as young
LiveInclusive(e, now) == now - e.observedAt <= TTL

\* "younger than ttl seconds"
Live(e, now) == now - e.observedAt < TTL

\* the lazy eviction get() begins with
Evict(c, now) == {e \in c : Live(e, now)}

\* the most recently observed entry
Newest(S) == CHOOSE e \in S : \A f \in S : e.observedAt >= f.observedAt

Oldest(S) == CHOOSE e \in S : \A f \in S : e.observedAt <= f.observedAt

\* get() falling back on the most recently observed used blockhash
CacheGetNewestUsed(c, now) ==
    LET live == {e \in c : now - e.observedAt < TTL}
        unused == {e \in live : ~e.used}
    IN  IF unused # {} THEN Some(Oldest(unused).blockhash)
        ELSE IF live # {}
          THEN Some((CHOOSE e \in live : \A f \in live : e.observedAt >= f.observedAt).blockhash)
        ELSE None

\* get(): the oldest unused live blockhash, else the oldest used live one,
\* else None (it raises ValueError).  It marks nothing.
CacheGet(c, now) ==
    LET live == Evict(c, now)
        unused == {e \in live : ~e.used}
    IN  IF unused # {} THEN Some(Oldest(unused).blockhash)
        ELSE IF live # {} THEN Some(Oldest(live).blockhash)
        ELSE None

\* add(token, observedAt): a new unused entry; nothing if the token is there.
CacheAdd(c, h, now) ==
    IF \E e \in c : e.blockhash = h THEN c
    ELSE c \cup {[blockhash |-> h, observedAt |-> now, used |-> FALSE]}

\* markUsed(token)
CacheMarkUsed(c, h) ==
    {IF e.blockhash = h THEN [e EXCEPT !.used = TRUE] ELSE e : e \in c}

\* self._process_blockhash_resp(blockhash_resp, used_immediately)
ProcessBlockhashResp(c, h, now, used_immediately) ==
    IF used_immediately THEN CacheMarkUsed(CacheAdd(c, h, now), h)
    ELSE CacheAdd(c, h, now)

\* ------------------------------------------------------------- transactions
\* A transaction is [recent_blockhash, signed_over]: the blockhash attached to
\* its message and the blockhash field of the message its signatures cover.
NewTxn == [recent_blockhash |-> None, signed_over |-> None]

\* txn.recent_blockhash = recent_blockhash
Attach(t, h) == [t EXCEPT !.recent_blockhash = Some(h)]

\* txn.sign(*signers): signs the message as it is now
Sign(t) == [t EXCEPT !.signed_over = Some(t.recent_blockhash)]

\* txn.serialize()
Serialize(t) == t

\* the transaction signed before the blockhash is attached
SignThenAttach(t, h) == Serialize(Attach(Sign(t), h))

\* Lines 1086-1094: attach the blockhash, sign, serialize.
PrepareWire(t, h) == Serialize(Sign(Attach(t, h)))

\* The signature the node answers a submit with: that of the bytes it got.
Signature(w) == [signs |-> w.signed_over]

\* types.TxOpts(skip_confirmation, preflight_commitment, last_valid_block_height)
TxOpts(skip, c, lvbh) ==
    [skip_confirmation |-> skip, preflight_commitment |-> c,
     last_valid_block_height |-> lvbh]

\* types.TxOpts(preflight_commitment=self._commitment, ...) if opts is None else opts
OptsToUse(o, lvbh) ==
    IF IsNone(o) THEN TxOpts(txopts_skip_default, self_commitment, lvbh) ELSE Val(o)

\* get_latest_blockhash(Finalized): the blockhash and its last valid height
LatestBlockhash == [blockhash |-> netHeight,
                    last_valid_block_height |-> netHeight + ValidBlocks]

\* ------------------------------------------ confirm_transaction, its tests
\* commitment or self._commitment
CommitmentToUse(c, dflt) == IF IsNone(c) THEN dflt ELSE Val(c)

\* the ceiling tested with `is not None`
HasCeilingNotNone(lvbh) == ~IsNone(lvbh)

\* if last_valid_block_height:   (None and 0 are both falsy)
HasCeiling(lvbh) == ~IsNone(lvbh) /\ Val(lvbh) # 0

\* a missing entry or status counted as rank 0
QualifiesNoneAsZero(r, rank) ==
    IF IsNone(r) \/ IsNone(Val(r).confirmation_status) THEN 0 >= rank
    ELSE CommitmentRank(Val(Val(r).confirmation_status)) >= rank

\* the comparison made strict
QualifiesStrict(r, rank) ==
    /\ ~IsNone(r)
    /\ ~IsNone(Val(r).confirmation_status)
    /\ CommitmentRank(Val(Val(r).confirmation_status)) > rank

\* an entry that carries an execution error never counted
QualifiesUnlessErr(r, rank) ==
    /\ ~IsNone(r)
    /\ ~IsNone(Val(r).confirmation_status)
    /\ CommitmentRank(Val(Val(r).confirmation_status)) >= rank
    /\ "err" \in DOMAIN Val(r) => IsNone(Val(r).err)

\* the reported rank required to equal the target rank
QualifiesExactly(r, rank) ==
    /\ ~IsNone(r)
    /\ ~IsNone(Val(r).confirmation_status)
    /\ CommitmentRank(Val(Val(r).confirmation_status)) = rank

\* resp_value is not None, confirmation_status is not None and
\* int(confirmation_status) >= commitment_rank
Qualifies(r, rank) ==
    /\ ~IsNone(r)
    /\ ~IsNone(Val(r).confirmation_status)
    /\ CommitmentRank(Val(Val(r).confirmation_status)) >= rank

\* the ceiling overshot by one block
HeightLoopCondLax(height, lvbh) == height <= Val(lvbh) + 1

\* the ceiling itself excluded
HeightLoopCondStrict(height, lvbh) == height < Val(lvbh)

\* while current_blockheight <= last_valid_block_height
HeightLoopCond(height, lvbh) == height <= Val(lvbh)

\* while time() < timeout
TimeLoopCond(now, deadline) == now < Val(deadline)

\* the deadline taken as an absolute time
DeadlineAbsolute(now) == TIMEOUT_SECONDS

\* timeout = time() + 30
Deadline(now) == now + TIMEOUT_SECONDS

\* await asyncio.sleep(sleep_seconds) may return
SleepIsDue == waited >= sleep_seconds

\* ------------------------------------------------- what the claims speak of
\* The commitment the call is asked to reach, and "status s has rank >= it".
TargetCommitment == IF IsNone(commitment) THEN self_commitment ELSE Val(commitment)

ReachedRank(s) ==
    /\ s # None
    /\ Val(s).confirmation_status # None
    /\ CommitmentRank(Val(Val(s).confirmation_status)) >= CommitmentRank(TargetCommitment)

CeilingMode == ~IsNone(last_valid_block_height) /\ Val(last_valid_block_height) > 0

CeilingPcs == {"height_first", "status_ceiling", "height_loop", "sleep_ceiling"}
WallclockPcs == {"status_wallclock", "sleep_wallclock"}
ConfirmPcs == CeilingPcs \cup WallclockPcs
SleepPcs == {"sleep_ceiling", "sleep_wallclock"}
SendRequestPcs == {"blockhash_miss", "blockhash_nocache", "submit", "refresh"}

\* The deadline has not passed on the network's side.
NotExpiredNet(height) ==
    IF CeilingMode THEN height <= Val(last_valid_block_height)
    ELSE clock < Val(timeout)

\* The history of the node's answers is kept for direct calls.
Watched == api = "confirm_transaction" /\ pc \in ConfirmPcs

\* ------------------------------------------------------ how a method ends
\* send_raw_transaction has returned its response: send_transaction goes on
\* to lines 1095-1098, a direct caller gets the response.
AfterSendRaw ==
    IF api = "send_transaction" /\ cache_enabled
      THEN /\ pc' = "refresh"
           /\ refresh' = "issued"
           /\ UNCHANGED result
      ELSE /\ pc' = "done"
           /\ result' = "returned"
           /\ UNCHANGED refresh

\* a send method handing the transaction to the node again when its
\* confirmation fails
RaiseResend(kind) ==
    IF api # "confirm_transaction" /\ kind \in {"Expired", "TimedOut"}
      THEN /\ pc' = "send_raw_transaction"
           /\ outcome' = kind
           /\ UNCHANGED <<result, returned, refresh>>
      ELSE /\ pc' = "done"
           /\ outcome' = kind
           /\ result' = kind
           /\ UNCHANGED <<returned, refresh>>

\* an exception leaves the running method and every caller above it: none of
\* them has a try block around the call
Raise(kind) ==
    /\ pc' = "done"
    /\ outcome' = kind
    /\ result' = kind
    /\ UNCHANGED <<returned, refresh>>

\* return resp   (lines 1182 and 1197), then line 1148 in a send
ReturnResp(r) ==
    /\ outcome' = "Confirmed"
    /\ returned' = r
    /\ IF api = "confirm_transaction"
         THEN /\ pc' = "done"
              /\ result' = "returned"
              /\ UNCHANGED refresh
         ELSE AfterSendRaw

\* the loop goes on to its next await
Continue(next) ==
    /\ pc' = next
    /\ UNCHANGED <<outcome, returned, result, refresh>>

\* ------------------------------------------------ confirm_transaction, steps
\* Lines 1165-1168 / 1184-1186: up to the first await.
confirm_entry ==
    /\ pc = "confirm_transaction"
    /\ waited' = 0
    /\ commitment_rank' = CommitmentRank(CommitmentToUse(commitment, self_commitment))
    /\ IF HasCeiling(last_valid_block_height)
         THEN /\ Continue("height_first")
              /\ UNCHANGED timeout
         ELSE /\ timeout' = Some(Deadline(clock))
              /\ Continue("status_wallclock")
    /\ entryClock' = Some(clock)
    /\ confirms' = confirms + 1
    /\ cacheAtWait' = Some(blockhash_cache)
    /\ IF api = "confirm_transaction"
         THEN /\ everQual' = ReachedRank(netStatus)
              /\ qualInTime' = (ReachedRank(netStatus)
                                  /\ (CeilingMode => netHeight <= Val(last_valid_block_height)))
              /\ expiredFirst' = (CeilingMode /\ netHeight > Val(last_valid_block_height)
                                    /\ ~ReachedRank(netStatus))
         ELSE UNCHANGED <<everQual, qualInTime, expiredFirst>>
    /\ UNCHANGED <<netVars, argVars, current_blockheight, resp, sendLocals,
                   lastPolled, failed, at29, cancelled>>

\* the loop body entered once before the condition is tested
height_first_poll_anyway ==
    /\ pc = "height_first"
    /\ waited' = 0
    /\ current_blockheight' = Some(netHeight)
    /\ Continue("status_ceiling")
    /\ UNCHANGED <<netVars, argVars, commitment_rank, timeout, resp, sendLocals,
                   histVars>>

\* Line 1168 returns, then the loop test of line 1169 (else: line 1181).
height_first ==
    /\ pc = "height_first"
    /\ waited' = 0
    /\ current_blockheight' = Some(netHeight)
    /\ IF HeightLoopCond(netHeight, last_valid_block_height)
         THEN Continue("status_ceiling")
         ELSE Raise("Expired")
    /\ UNCHANGED <<netVars, argVars, commitment_rank, timeout, resp, sendLocals,
                   histVars>>

\* the iteration sleeping right after its poll, with no height fetch
status_ceiling_no_fetch ==
    /\ pc = "status_ceiling"
    /\ waited' = 0
    /\ resp' = Some(netStatus)
    /\ lastPolled' = Some(netStatus)
    /\ IF Qualifies(netStatus, commitment_rank)
         THEN ReturnResp(resp')
         ELSE Continue("sleep_ceiling")
    /\ UNCHANGED <<netVars, argVars, commitment_rank, current_blockheight,
                   timeout, sendLocals, entryHist, failed, netHist>>

\* Line 1170 returns; lines 1171-1178 up to the next get_block_height.
status_ceiling ==
    /\ pc = "status_ceiling"
    /\ waited' = 0
    /\ resp' = Some(netStatus)
    /\ lastPolled' = Some(netStatus)
    /\ IF Qualifies(netStatus, commitment_rank)
         THEN ReturnResp(resp')
         ELSE Continue("height_loop")
    /\ UNCHANGED <<netVars, argVars, commitment_rank, current_blockheight,
                   timeout, sendLocals, entryHist, failed, netHist>>

\* the loop sleeping without fetching the height again
height_loop_stale ==
    /\ pc = "height_loop"
    /\ waited' = 0
    /\ Continue("sleep_ceiling")
    /\ UNCHANGED <<netVars, argVars, confVars, sendLocals, histVars>>

\* Line 1178 returns; line 1179 starts the sleep.
height_loop ==
    /\ pc = "height_loop"
    /\ current_blockheight' = Some(netHeight)
    /\ waited' = 0
    /\ Continue("sleep_ceiling")
    /\ UNCHANGED <<netVars, argVars, commitment_rank, timeout, resp, sendLocals,
                   histVars>>

\* Line 1179 returns, then the loop test of line 1169 (else: line 1181).
sleep_ceiling ==
    /\ pc = "sleep_ceiling"
    /\ SleepIsDue
    /\ waited' = 0
    /\ IF HeightLoopCond(Val(current_blockheight), last_valid_block_height)
         THEN Continue("status_ceiling")
         ELSE Raise("Expired")
    /\ UNCHANGED <<netVars, argVars, confVars, sendLocals, histVars>>

\* the deadline tested again when the poll is answered
status_wallclock_deadline_first ==
    /\ pc = "status_wallclock"
    /\ waited' = 0
    /\ resp' = Some(netStatus)
    /\ lastPolled' = Some(netStatus)
    /\ IF ~TimeLoopCond(clock, timeout)
         THEN Raise("TimedOut")
         ELSE IF Qualifies(netStatus, commitment_rank)
           THEN ReturnResp(resp')
           ELSE Continue("sleep_wallclock")
    /\ UNCHANGED <<netVars, argVars, commitment_rank, current_blockheight,
                   timeout, sendLocals, entryHist, failed, netHist>>

\* Line 1186 returns; lines 1187-1194 up to the sleep.
status_wallclock ==
    /\ pc = "status_wallclock"
    /\ waited' = 0
    /\ resp' = Some(netStatus)
    /\ lastPolled' = Some(netStatus)
    /\ IF Qualifies(netStatus, commitment_rank)
         THEN ReturnResp(resp')
         ELSE Continue("sleep_wallclock")
    /\ UNCHANGED <<netVars, argVars, commitment_rank, current_blockheight,
                   timeout, sendLocals, entryHist, failed, netHist>>

\* Line 1194 returns, then the loop test of line 1185 (else: line 1196).
sleep_wallclock ==
    /\ pc = "sleep_wallclock"
    /\ SleepIsDue
    /\ waited' = 0
    /\ IF TimeLoopCond(clock, timeout)
         THEN Continue("status_wallclock")
         ELSE Raise("TimedOut")
    /\ UNCHANGED <<netVars, argVars, confVars, sendLocals, histVars>>

\* A pending request (get_block_height, get_signature_statuses) raises: the
\* exception leaves confirm_transaction, which has no try block.
ConfirmRequestPcs ==
    {"height_first", "status_ceiling", "height_loop", "status_wallclock"}

AwaitingRequest == pc \in ConfirmRequestPcs \cup SendRequestPcs

StatusPollPcs == {"status_ceiling", "status_wallclock"}

\* the failed request asked again
request_fails_retry ==
    /\ pc \in ConfirmRequestPcs
    /\ waited' = 0
    /\ failed' = TRUE
    /\ Continue(pc)
    /\ UNCHANGED <<netVars, argVars, confVars, sendLocals, entryHist,
                   lastPolled, netHist>>

request_fails ==
    /\ pc \in ConfirmRequestPcs
    /\ waited' = 0
    /\ failed' = TRUE
    /\ Raise("NetworkError")
    /\ UNCHANGED <<netVars, argVars, confVars, sendLocals, entryHist,
                   lastPolled, netHist>>

\* the cancellation caught inside the loop, which goes on
cancel_swallowed ==
    /\ pc \in ConfirmPcs
    /\ cancelled' = TRUE
    /\ Continue(pc)
    /\ UNCHANGED <<netVars, argVars, waited, confVars, sendLocals, entryClock,
                   confirms, cacheAtWait, lastPolled, failed, netHist>>

\* The task is cancelled while confirm_transaction is suspended at an await
\* (a request of lines 1168, 1170, 1178, 1186 or a sleep of lines 1179, 1194):
\* CancelledError is raised there and leaves confirm_transaction and every
\* caller above it, none of which catches it.
cancel ==
    /\ pc \in ConfirmPcs
    /\ cancelled' = TRUE
    /\ Raise("Cancelled")
    /\ UNCHANGED <<netVars, argVars, waited, confVars, sendLocals, entryClock,
                   confirms, cacheAtWait, lastPolled, failed, netHist>>

\* ----------------------------------------------------- the send methods
\* send_raw_transaction, lines 1034-1037: the request is built and sent.
SendRaw(bytes, o) ==
    /\ opts_to_use' = Some(OptsToUse(o, None))
    /\ wire' = Some(bytes)
    /\ submit' = "issued"
    /\ pc' = "submit"

\* a ceiling worked out for every blockhash, wherever it came from
SignAndSendDerived(h, lvbh) ==
    /\ recent_blockhash' = Some(h)
    /\ st_last_valid_block_height' = Some(h + ValidBlocks)
    /\ SendRaw(PrepareWire(NewTxn, h), Some(OptsToUse(opts, Some(h + ValidBlocks))))

\* send_transaction, lines 1086-1094, and send_raw_transaction to its await.
SignAndSend(h, lvbh) ==
    /\ recent_blockhash' = Some(h)
    /\ st_last_valid_block_height' = lvbh
    /\ SendRaw(PrepareWire(NewTxn, h), Some(OptsToUse(opts, lvbh)))

\* send_transaction, lines 1072-1082: up to its first await.
send_transaction ==
    /\ pc = "send_transaction"
    /\ waited' = 0
    /\ IF ~IsNone(arg_recent_blockhash)
         THEN /\ SignAndSend(Val(arg_recent_blockhash), None)
              /\ UNCHANGED blockhash_cache
         ELSE IF cache_enabled
           THEN /\ blockhash_cache' = Evict(blockhash_cache, clock)
                /\ IF ~IsNone(CacheGet(blockhash_cache, clock))
                     THEN SignAndSend(Val(CacheGet(blockhash_cache, clock)), None)
                     ELSE /\ pc' = "blockhash_miss"
                          /\ st_last_valid_block_height' = None
                          /\ UNCHANGED <<recent_blockhash, opts_to_use, wire, submit>>
           ELSE /\ pc' = "blockhash_nocache"
                /\ st_last_valid_block_height' = None
                /\ UNCHANGED <<blockhash_cache, recent_blockhash, opts_to_use,
                               wire, submit>>
    /\ UNCHANGED <<netVars, argVars, confVars, endVars, refresh, refreshed, histVars>>

\* the fallback blockhash recorded as not yet used
blockhash_miss_unused ==
    /\ pc = "blockhash_miss"
    /\ waited' = 0
    /\ blockhash_cache' = ProcessBlockhashResp(blockhash_cache, LatestBlockhash.blockhash,
                                               clock, FALSE)
    /\ SignAndSend(LatestBlockhash.blockhash,
                   Some(LatestBlockhash.last_valid_block_height))
    /\ UNCHANGED <<netVars, argVars, confVars, endVars, refresh, refreshed, histVars>>

\* Line 1078 returns; lines 1079-1094 up to the submit request.
blockhash_miss ==
    /\ pc = "blockhash_miss"
    /\ waited' = 0
    /\ blockhash_cache' = ProcessBlockhashResp(blockhash_cache, LatestBlockhash.blockhash,
                                               clock, TRUE)
    /\ SignAndSend(LatestBlockhash.blockhash,
                   Some(LatestBlockhash.last_valid_block_height))
    /\ UNCHANGED <<netVars, argVars, confVars, endVars, refresh, refreshed, histVars>>

\* Line 1082 returns; lines 1083-1094 up to the submit request.
blockhash_nocache ==
    /\ pc = "blockhash_nocache"
    /\ waited' = 0
    /\ SignAndSend(LatestBlockhash.blockhash,
                   Some(LatestBlockhash.last_valid_block_height))
    /\ UNCHANGED <<netVars, argVars, confVars, endVars, blockhash_cache, refresh,
                   refreshed, histVars>>

\* A direct call of send_raw_transaction(txn, opts), up to its await.
send_raw_transaction ==
    /\ pc = "send_raw_transaction"
    /\ waited' = 0
    /\ SendRaw(Val(wire), opts)
    /\ UNCHANGED <<netVars, argVars, confVars, endVars, blockhash_cache,
                   recent_blockhash, st_last_valid_block_height, refresh,
                   refreshed, histVars>>

\* self._send_raw_transaction_post_send_args(resp, opts_to_use)
PostSendArgs(o) ==
    [conf_comm |-> o.preflight_commitment,
     last_valid_block_height |-> o.last_valid_block_height]

\* the confirmation made whatever skip_confirmation says
submit_returns_no_skip ==
    /\ pc = "submit"
    /\ waited' = 0
    /\ submit' = "done"
    /\ tx_sig' = Some(Signature(Val(wire)))
    /\ commitment' = Some(PostSendArgs(Val(opts_to_use)).conf_comm)
    /\ last_valid_block_height' =
           PostSendArgs(Val(opts_to_use)).last_valid_block_height
    /\ sleep_seconds' = SLEEP_SECONDS_DEFAULT
    /\ pc' = "confirm_transaction"
    /\ UNCHANGED <<result, refresh>>
    /\ UNCHANGED <<netVars, inputVars, apartVars, confVars, outcome, returned, blockhash_cache,
                   recent_blockhash, st_last_valid_block_height, opts_to_use, wire,
                   refreshed, histVars>>

\* Line 1037 returns; lines 1038-1041, and __post_send_with_confirm up to its
\* call of confirm_transaction (lines 1144-1147), which begins at once.
submit_returns ==
    /\ pc = "submit"
    /\ waited' = 0
    /\ submit' = "done"
    /\ IF Val(opts_to_use).skip_confirmation
         THEN /\ AfterSendRaw
              /\ UNCHANGED callVars
         ELSE /\ tx_sig' = Some(Signature(Val(wire)))
              /\ commitment' = Some(PostSendArgs(Val(opts_to_use)).conf_comm)
              /\ last_valid_block_height' =
                     PostSendArgs(Val(opts_to_use)).last_valid_block_height
              /\ sleep_seconds' = SLEEP_SECONDS_DEFAULT
              /\ pc' = "confirm_transaction"
              /\ UNCHANGED <<result, refresh>>
    /\ UNCHANGED <<netVars, inputVars, apartVars, confVars, outcome, returned, blockhash_cache,
                   recent_blockhash, st_last_valid_block_height, opts_to_use, wire,
                   refreshed, histVars>>

\* Line 1096 returns; lines 1097-1098.
refresh_returns ==
    /\ pc = "refresh"
    /\ waited' = 0
    /\ blockhash_cache' = ProcessBlockhashResp(blockhash_cache, LatestBlockhash.blockhash,
                                               clock, FALSE)
    /\ refreshed' = Some(LatestBlockhash.blockhash)
    /\ refresh' = "done"
    /\ pc' = "done"
    /\ result' = "returned"
    /\ UNCHANGED <<netVars, argVars, confVars, outcome, returned, recent_blockhash,
                   st_last_valid_block_height, opts_to_use, wire, submit, histVars>>

\* A request of a send method raises: the exception leaves send_raw_transaction
\* and send_transaction (whose only try block is around blockhash_cache.get()).
send_request_fails ==
    /\ pc \in SendRequestPcs
    /\ waited' = 0
    /\ pc' = "done"
    /\ result' = "NetworkError"
    /\ submit' = IF pc = "submit" THEN "failed" ELSE submit
    /\ refresh' = IF pc = "refresh" THEN "failed" ELSE refresh
    /\ UNCHANGED <<netVars, argVars, confVars, outcome, returned, blockhash_cache,
                   recent_blockhash, st_last_valid_block_height, opts_to_use, wire,
                   refreshed, histVars>>

\* ------------------------------------------------------------- environment
\* The environment is followed only as far as the task can still observe it:
\* the clock while a later step may read time(), the ledger height while a
\* later step may fetch it.
RefreshAhead == api = "send_transaction" /\ cache_enabled /\ pc # "done"

ClockRead ==
    \/ pc = "confirm_transaction" /\ ~CeilingMode
    \/ pc \in WallclockPcs
    \/ RefreshAhead

\* the confirmation a pending submit leads to has a ceiling
CeilingAhead ==
    /\ pc = "submit"
    /\ ~Val(opts_to_use).skip_confirmation
    /\ HasCeiling(Val(opts_to_use).last_valid_block_height)

HeightRead ==
    \/ pc \in {"confirm_transaction"} \cup ConfirmPcs /\ CeilingMode
    \/ pc \in {"send_transaction", "blockhash_nocache"}
    \/ CeilingAhead
    \/ RefreshAhead

\* A second may pass before the call begins (up to MaxClock), while a request
\* is out (up to MaxLatency) and while a sleep lasts (sleep_seconds, and up to
\* MaxLate more before the event loop resumes the task).
TimeMayPass ==
    CASE pc = "done" -> FALSE
      [] pc \in SleepPcs -> waited < sleep_seconds + MaxLate
      [] AwaitingRequest -> waited < MaxLatency
      [] pc = "confirm_transaction" /\ api # "confirm_transaction" -> FALSE
      [] OTHER -> ClockRead /\ clock < MaxClock

\* Past the deadline the clock stands for "the deadline or later".
ClockCap == IF IsNone(timeout) THEN MaxTime ELSE Val(timeout)

Tick ==
    /\ TimeMayPass
    /\ clock' = IF ClockRead /\ clock < ClockCap THEN clock + 1 ELSE clock
    /\ waited' = IF AwaitingRequest \/ pc \in SleepPcs THEN waited + 1 ELSE waited
    /\ UNCHANGED <<netStatus, netHeight, argVars, pc, confVars, endVars, sendVars,
                   histVars>>

\* The ledger grows to MaxHeight, and past a ceiling a call is waiting on.
CeilingPending ==
    /\ pc \in ConfirmPcs
    /\ CeilingMode
    /\ netHeight <= Val(last_valid_block_height)

NetHeightAdvance ==
    /\ HeightRead
    /\ netHeight < MaxHeight \/ CeilingPending
    /\ netHeight' = netHeight + 1
    /\ expiredFirst' = (expiredFirst
                          \/ (Watched /\ CeilingMode /\ ~everQual
                                /\ netHeight' > Val(last_valid_block_height)))
    /\ UNCHANGED <<clock, netStatus, argVars, taskVars, entryHist, lastPolled,
                   failed, everQual, qualInTime, at29>>

\* The node's answer for the signature changes: the transaction is processed,
\* gains or loses rank, or drops out of the node's recent-status cache.  The
\* node knows nothing of a transaction until it has been handed to it, and
\* its answer is followed while a later step may poll it.
StatusRead ==
    \/ pc \in {"confirm_transaction"} \cup ConfirmPcs
    \/ pc = "submit" /\ ~Val(opts_to_use).skip_confirmation

StatusBecomes(s) ==
    /\ netStatus' = s
    /\ IF Watched
         THEN /\ everQual' = (everQual \/ ReachedRank(s))
              /\ qualInTime' = (ReachedRank(s)
                                  /\ IF ReachedRank(netStatus) THEN qualInTime
                                     ELSE NotExpiredNet(netHeight))
              /\ at29' = (ReachedRank(s)
                            /\ IF ReachedRank(netStatus) THEN at29
                               ELSE /\ ~everQual
                                    /\ ~CeilingMode
                                    /\ clock = Val(entryClock) + TIMEOUT_SECONDS - 1)
         ELSE UNCHANGED <<everQual, qualInTime, at29>>
    /\ UNCHANGED <<clock, netHeight, argVars, taskVars, entryHist, lastPolled,
                   failed, expiredFirst>>

NetStatusChange ==
    /\ StatusRead
    /\ \E s \in Statuses \ {netStatus} : StatusBecomes(s)

\* The node's answers told apart by the execution error they carry as well:
\* a status entry is [confirmation_status, err].
ErrStatusEntries ==
    [confirmation_status : {None} \cup {Some(c) : c \in Commitments},
     err : {None, Some("InstructionError")}]

ErrStatuses == {None} \cup {Some(e) : e \in ErrStatusEntries}

NetStatusErrChange ==
    /\ StatusRead
    /\ \E s \in ErrStatuses \ {netStatus} : StatusBecomes(s)

\* ----------------------------------------------------------- specifications
NoSend ==
    /\ opts = None
    /\ arg_recent_blockhash = None
    /\ cache_enabled = FALSE
    /\ txopts_skip_default = FALSE
    /\ blockhash_cache = {}
    /\ recent_blockhash = None
    /\ st_last_valid_block_height = None
    /\ opts_to_use = None
    /\ wire = None
    /\ submit = "none"
    /\ refresh = "none"
    /\ refreshed = None

NotBegun ==
    /\ clock = 0
    /\ waited = 0
    /\ commitment_rank = 0
    /\ current_blockheight = None
    /\ timeout = None
    /\ resp = None
    /\ outcome = "none"
    /\ returned = None
    /\ result = "pending"
    /\ op = "none"
    /\ got = None
    /\ lastMarked = None
    /\ cacheBefore = {}
    /\ entryClock = None
    /\ confirms = 0
    /\ cacheAtWait = None
    /\ cancelled = FALSE
    /\ lastPolled = None
    /\ failed = FALSE
    /\ everQual = FALSE
    /\ qualInTime = FALSE
    /\ expiredFirst = FALSE
    /\ at29 = FALSE

\* One call only.
Alone == calls = <<>> /\ sends = <<>> /\ running = None /\ twin = <<>>

\* A direct call of confirm_transaction(tx_sig, commitment, sleep_seconds,
\* last_valid_block_height) on a client whose default commitment is
\* self_commitment.
ConfirmCall ==
    /\ NotBegun
    /\ NoSend
    /\ Alone
    /\ netStatus \in Statuses
    /\ netHeight \in 0 .. MaxHeight
    /\ api = "confirm_transaction"
    /\ tx_sig = Some(Signature(PrepareWire(NewTxn, 0)))
    /\ commitment \in {None} \cup {Some(c) : c \in Commitments}
    /\ self_commitment = "confirmed"
    /\ sleep_seconds \in 0 .. MaxSleep
    /\ last_valid_block_height \in {None} \cup {Some(h) : h \in 0 .. MaxHeight}
    /\ pc = "confirm_transaction"

InitConfirm ==
    /\ ConfirmCall
    /\ timeout_wanted = None

\* The task's own steps: a pending await returns or raises.
ConfirmStep ==
    \/ confirm_entry
    \/ height_first
    \/ status_ceiling
    \/ height_loop
    \/ sleep_ceiling
    \/ status_wallclock
    \/ sleep_wallclock
    \/ request_fails

NextConfirm ==
    \/ ConfirmStep
    \/ Tick
    \/ NetHeightAdvance
    \/ NetStatusChange

SpecConfirm == InitConfirm /\ [][NextConfirm]_vars

\* The same call with the default poll interval, the node's answers carrying
\* an execution error or none.
InitErr ==
    /\ NotBegun
    /\ NoSend
    /\ Alone
    /\ netStatus \in ErrStatuses
    /\ netHeight \in 0 .. MaxHeight
    /\ api = "confirm_transaction"
    /\ tx_sig = Some(Signature(PrepareWire(NewTxn, 0)))
    /\ commitment \in {None} \cup {Some(c) : c \in Commitments}
    /\ self_commitment = "confirmed"
    /\ sleep_seconds = SLEEP_SECONDS_DEFAULT
    /\ last_valid_block_height \in {None, Some(MaxHeight)}
    /\ timeout_wanted = None
    /\ pc = "confirm_transaction"

NextErr ==
    \/ ConfirmStep
    \/ Tick
    \/ NetHeightAdvance
    \/ NetStatusErrChange

SpecErr == InitErr /\ [][NextErr]_vars

\* Every request eventually returns (or raises), every sleep ends, and
\* wall-clock time advances.  Nothing is assumed of the ledger or the status.
SpecConfirmFair ==
    /\ InitConfirm
    /\ [][NextConfirm]_vars
    /\ WF_vars(ConfirmStep)
    /\ WF_vars(Tick)

\* The same call made by a caller who wants a wall-clock budget of its own,
\* shorter or longer than the 30 seconds: confirm_transaction has no parameter
\* to take it.
InitBudget ==
    /\ ConfirmCall
    /\ timeout_wanted \in {Some(TIMEOUT_SECONDS - 1), Some(TIMEOUT_SECONDS + 1)}

SpecBudget == InitBudget /\ [][NextConfirm]_vars

\* The opts a caller passes: skipping confirmation, or confirming to a
\* commitment other than the client's, with or without a ceiling of its own.
OptsChoices ==
    {TxOpts(TRUE, "finalized", None)}
      \cup {TxOpts(FALSE, c, l) : c \in {"processed", "finalized"},
                                  l \in {None, Some(MaxHeight)}}

\* What a cache may hold when the call begins: blockhashes of earlier blocks
\* observed TTL or fewer seconds ago, used or not.
CachePool ==
    {[blockhash |-> 0 - 2, observedAt |-> 0 - TTL, used |-> FALSE],
     [blockhash |-> 0 - 1, observedAt |-> 1 - TTL, used |-> FALSE],
     [blockhash |-> 0 - 1, observedAt |-> 1 - TTL, used |-> TRUE],
     [blockhash |-> 0, observedAt |-> 0, used |-> FALSE]}

InitCaches ==
    {c \in SUBSET CachePool :
        /\ Cardinality(c) <= 2
        /\ \A e, f \in c : e.blockhash = f.blockhash => e = f}

\* A call of send_transaction(txn, *signers, opts, recent_blockhash) or of
\* send_raw_transaction(txn, opts); the node has no record of the transaction.
InitSend ==
    /\ NotBegun
    /\ Alone
    /\ netStatus = None
    /\ netHeight = 0
    /\ api \in {"send_transaction", "send_raw_transaction"}
    /\ timeout_wanted = None
    /\ pc = api
    /\ self_commitment = "confirmed"
    /\ opts \in {None} \cup {Some(o) : o \in OptsChoices}
    /\ txopts_skip_default \in IF opts = None THEN BOOLEAN ELSE {FALSE}
    /\ arg_recent_blockhash \in IF api = "send_transaction" THEN {None, Some(0)}
                                ELSE {None}
    /\ cache_enabled \in BOOLEAN
    /\ blockhash_cache \in IF cache_enabled /\ api = "send_transaction"
                           THEN InitCaches ELSE {{}}
    /\ wire = IF api = "send_raw_transaction" THEN Some(PrepareWire(NewTxn, 0))
              ELSE None
    /\ tx_sig = None
    /\ commitment = None
    /\ sleep_seconds = SLEEP_SECONDS_DEFAULT
    /\ last_valid_block_height = None
    /\ recent_blockhash = None
    /\ st_last_valid_block_height = None
    /\ opts_to_use = None
    /\ submit = "none"
    /\ refresh = "none"
    /\ refreshed = None

SendStep ==
    \/ send_transaction
    \/ blockhash_miss
    \/ blockhash_nocache
    \/ send_raw_transaction
    \/ submit_returns
    \/ refresh_returns
    \/ send_request_fails

NextSend ==
    \/ SendStep
    \/ ConfirmStep
    \/ Tick
    \/ NetHeightAdvance
    \/ NetStatusChange

SpecSend == InitSend /\ [][NextSend]_vars

\* The same calls, made by a caller that may cancel the task while it waits
\* for the confirmation.
NextCancel ==
    \/ NextSend
    \/ cancel

SpecCancel == InitSend /\ [][NextCancel]_vars

\* ------------------------------------------------------- the cache alone
\* The operations of the BlockhashCache, called in any order while time
\* passes: add as _process_blockhash_resp calls it, markUsed, get.  No two
\* blockhashes are observed at the same instant.
CacheFrame ==
    UNCHANGED <<netStatus, netHeight, inputVars, callVars, calls, sends, running, twin,
                pc, waited, confVars, endVars, sendRest, refresh, histVars>>

cache_add ==
    /\ pc = "cache"
    /\ \A e \in blockhash_cache : e.observedAt # clock
    /\ \E h \in 0 .. MaxHeight :
         blockhash_cache' = CacheAdd(blockhash_cache, h, clock)
    /\ op' = "add"
    /\ cacheBefore' = {}
    /\ UNCHANGED <<clock, got, lastMarked>>
    /\ CacheFrame

cache_markUsed ==
    /\ pc = "cache"
    /\ \E h \in 0 .. MaxHeight :
         /\ blockhash_cache' = CacheMarkUsed(blockhash_cache, h)
         /\ lastMarked' = IF \E e \in blockhash_cache : e.blockhash = h
                           THEN Some(h) ELSE lastMarked
    /\ op' = "markUsed"
    /\ cacheBefore' = {}
    /\ UNCHANGED <<clock, got>>
    /\ CacheFrame

cache_get ==
    /\ pc = "cache"
    /\ got' = CacheGet(blockhash_cache, clock)
    /\ blockhash_cache' = Evict(blockhash_cache, clock)
    /\ op' = "get"
    /\ cacheBefore' = blockhash_cache
    /\ UNCHANGED <<clock, lastMarked>>
    /\ CacheFrame

cache_tick ==
    /\ pc = "cache"
    /\ clock < MaxTime
    /\ clock' = clock + 1
    /\ op' = "tick"
    /\ cacheBefore' = {}
    /\ UNCHANGED <<blockhash_cache, got, lastMarked>>
    /\ CacheFrame

\* No call in progress: the arguments of confirm_transaction are not set.
NoCall ==
    /\ tx_sig = None
    /\ commitment = None
    /\ sleep_seconds = SLEEP_SECONDS_DEFAULT
    /\ last_valid_block_height = None

\* A cache just built: empty.
InitCache ==
    /\ NotBegun
    /\ Alone
    /\ NoSend
    /\ NoCall
    /\ netStatus = None
    /\ netHeight = 0
    /\ api = "cache"
    /\ timeout_wanted = None
    /\ pc = "cache"
    /\ self_commitment = "confirmed"

NextCache ==
    \/ cache_add
    \/ cache_markUsed
    \/ cache_get
    \/ cache_tick

SpecCache == InitCache /\ [][NextCache]_vars

\* ---------------------------------------------- concurrent confirmations
\* NumCalls tasks of one event loop, each in its own call of
\* confirm_transaction for the same signature on the same client.  calls[i]
\* holds the arguments and the locals of call i; a step of call i is one
\* resumption of its coroutine.  Requests and sleeps may take any time.
Calls == 1 .. NumCalls

ConcFrame ==
    UNCHANGED <<inputVars, callVars, cacheOpVars, sends, running, twin, taskVars,
                histVars>>

\* the rank kept on the client, where every call reads it
call_entry_shared_rank(i) ==
    /\ calls[i].pc = "confirm_transaction"
    /\ LET rank == CommitmentRank(CommitmentToUse(calls[i].commitment, self_commitment))
           mine == IF HasCeiling(calls[i].last_valid_block_height)
                     THEN [calls[i] EXCEPT !.pc = "height_first"]
                     ELSE [calls[i] EXCEPT !.timeout = Some(Deadline(clock)),
                                            !.pc = "status_wallclock"]
       IN  calls' = [j \in Calls |->
                       [(IF j = i THEN mine ELSE calls[j])
                           EXCEPT !.commitment_rank = rank]]
    /\ UNCHANGED netVars
    /\ ConcFrame

\* Lines 1165-1168 / 1184-1186: up to the first await.
call_entry(i) ==
    /\ calls[i].pc = "confirm_transaction"
    /\ LET rank == CommitmentRank(CommitmentToUse(calls[i].commitment, self_commitment))
       IN  calls' = [calls EXCEPT ![i] =
                       IF HasCeiling(calls[i].last_valid_block_height)
                         THEN [@ EXCEPT !.commitment_rank = rank,
                                        !.pc = "height_first"]
                         ELSE [@ EXCEPT !.commitment_rank = rank,
                                        !.timeout = Some(Deadline(clock)),
                                        !.pc = "status_wallclock"]]
    /\ UNCHANGED netVars
    /\ ConcFrame

\* Line 1168 returns, then the loop test of line 1169 (else: line 1181).
call_height_first(i) ==
    /\ calls[i].pc = "height_first"
    /\ calls' = [calls EXCEPT ![i] =
                   IF HeightLoopCond(netHeight, calls[i].last_valid_block_height)
                     THEN [@ EXCEPT !.current_blockheight = Some(netHeight),
                                    !.pc = "status_ceiling"]
                     ELSE [@ EXCEPT !.current_blockheight = Some(netHeight),
                                    !.pc = "done", !.outcome = "Expired"]]
    /\ UNCHANGED netVars
    /\ ConcFrame

\* Line 1170 returns; lines 1171-1178 up to the next get_block_height.
call_status_ceiling(i) ==
    /\ calls[i].pc = "status_ceiling"
    /\ calls' = [calls EXCEPT ![i] =
                   IF Qualifies(netStatus, calls[i].commitment_rank)
                     THEN [@ EXCEPT !.resp = Some(netStatus), !.pc = "done",
                                    !.outcome = "Confirmed",
                                    !.returned = Some(netStatus)]
                     ELSE [@ EXCEPT !.resp = Some(netStatus), !.pc = "height_loop"]]
    /\ UNCHANGED netVars
    /\ ConcFrame

\* Line 1178 returns; line 1179 starts the sleep.
call_height_loop(i) ==
    /\ calls[i].pc = "height_loop"
    /\ calls' = [calls EXCEPT ![i] =
                   [@ EXCEPT !.current_blockheight = Some(netHeight),
                             !.pc = "sleep_ceiling"]]
    /\ UNCHANGED netVars
    /\ ConcFrame

\* Line 1179 returns, then the loop test of line 1169 (else: line 1181).
call_sleep_ceiling(i) ==
    /\ calls[i].pc = "sleep_ceiling"
    /\ calls' = [calls EXCEPT ![i] =
                   IF HeightLoopCond(Val(calls[i].current_blockheight),
                                     calls[i].last_valid_block_height)
                     THEN [@ EXCEPT !.pc = "status_ceiling"]
                     ELSE [@ EXCEPT !.pc = "done", !.outcome = "Expired"]]
    /\ UNCHANGED netVars
    /\ ConcFrame

\* Line 1186 returns; lines 1187-1194 up to the sleep.
call_status_wallclock(i) ==
    /\ calls[i].pc = "status_wallclock"
    /\ calls' = [calls EXCEPT ![i] =
                   IF Qualifies(netStatus, calls[i].commitment_rank)
                     THEN [@ EXCEPT !.resp = Some(netStatus), !.pc = "done",
                                    !.outcome = "Confirmed",
                                    !.returned = Some(netStatus)]
                     ELSE [@ EXCEPT !.resp = Some(netStatus), !.pc = "sleep_wallclock"]]
    /\ UNCHANGED netVars
    /\ ConcFrame

\* Line 1194 returns, then the loop test of line 1185 (else: line 1196).
call_sleep_wallclock(i) ==
    /\ calls[i].pc = "sleep_wallclock"
    /\ calls' = [calls EXCEPT ![i] =
                   IF TimeLoopCond(clock, calls[i].timeout)
                     THEN [@ EXCEPT !.pc = "status_wallclock"]
                     ELSE [@ EXCEPT !.pc = "done", !.outcome = "TimedOut"]]
    /\ UNCHANGED netVars
    /\ ConcFrame

\* A pending request of call i raises.
call_request_fails(i) ==
    /\ calls[i].pc \in ConfirmRequestPcs
    /\ calls' = [calls EXCEPT ![i] =
                   [@ EXCEPT !.pc = "done", !.outcome = "NetworkError"]]
    /\ UNCHANGED netVars
    /\ ConcFrame

\* The environment of the calls.  A change is followed only while some call
\* is suspended where its next step reads what changes.
CallsNotBegun ==
    {i \in Calls : calls[i].pc = "confirm_transaction"}

CallsReadingClock ==
    {i \in Calls : calls[i].pc = "sleep_wallclock"}

CallsReadingHeight ==
    {i \in Calls : calls[i].pc \in {"height_first", "height_loop"}}

CallsReadingStatus ==
    {i \in Calls : calls[i].pc \in {"status_ceiling", "status_wallclock"}}

\* Time passes: by a second while a call has yet to begin, or up to a
\* deadline some sleeping call will compare time() with (the seconds in
\* between give the same answers to every test of the code).
conc_tick ==
    /\ pc = "concurrent"
    /\ \/ CallsNotBegun # {} /\ clock < MaxClock /\ clock' = clock + 1
       \/ \E i \in CallsReadingClock :
             clock < Val(calls[i].timeout) /\ clock' = Val(calls[i].timeout)
    /\ UNCHANGED <<netStatus, netHeight, calls>>
    /\ ConcFrame

conc_height ==
    /\ pc = "concurrent"
    /\ \E i \in CallsReadingHeight :
          netHeight <= Val(calls[i].last_valid_block_height)
    /\ netHeight' = netHeight + 1
    /\ UNCHANGED <<clock, netStatus, calls>>
    /\ ConcFrame

conc_status ==
    /\ pc = "concurrent"
    /\ CallsReadingStatus # {}
    /\ \E s \in Statuses \ {netStatus} : netStatus' = s
    /\ UNCHANGED <<clock, netHeight, calls>>
    /\ ConcFrame

\* The arguments of one call, and its locals before it begins.
CallArgs ==
    [pc : {"confirm_transaction"},
     commitment : {Some("processed"), Some("finalized")},
     last_valid_block_height : {None, Some(1)},
     commitment_rank : {0},
     current_blockheight : {None},
     timeout : {None},
     resp : {None},
     outcome : {"none"},
     returned : {None}]

InitConc ==
    /\ NotBegun
    /\ NoCall
    /\ sends = <<>>
    /\ running = None
    /\ twin = <<>>
    /\ opts = None
    /\ arg_recent_blockhash = None
    /\ cache_enabled = TRUE
    /\ txopts_skip_default = FALSE
    /\ blockhash_cache = {[blockhash |-> 0, observedAt |-> 0, used |-> FALSE]}
    /\ recent_blockhash = None
    /\ st_last_valid_block_height = None
    /\ opts_to_use = None
    /\ wire = None
    /\ submit = "none"
    /\ refresh = "none"
    /\ refreshed = None
    /\ netStatus = None
    /\ netHeight = 0
    /\ api = "confirm_transaction"
    /\ timeout_wanted = None
    /\ pc = "concurrent"
    /\ self_commitment = "confirmed"
    /\ calls \in [Calls -> CallArgs]

CallStep(i) ==
    \/ call_entry(i)
    \/ call_height_first(i)
    \/ call_status_ceiling(i)
    \/ call_height_loop(i)
    \/ call_sleep_ceiling(i)
    \/ call_status_wallclock(i)
    \/ call_sleep_wallclock(i)
    \/ call_request_fails(i)

NextConc ==
    \/ \E i \in Calls : CallStep(i)
    \/ conc_tick
    \/ conc_height
    \/ conc_status

SpecConc == InitConc /\ [][NextConc]_vars

\* ------------------------------------------------- concurrent submissions
\* NumCalls tasks of one event loop, each in send_transaction without a
\* recent_blockhash, on one client whose cache is enabled.  The cache
\* operations are taken apart into their steps: get() drops the expired
\* entries one by one and then selects; _process_blockhash_resp with
\* used_immediately adds the entry and then marks it.  The loop resumes a
\* suspended task only while no task is running, and a running task runs on
\* to its next await.
LoopFrame ==
    UNCHANGED <<netStatus, inputVars, callVars, cacheOpVars, calls, twin, pc, waited,
                confVars, endVars, sendRest, refresh, histVars>>

\* a task resumed whenever its awaited result is there, as a thread would be
ResumablePreemptive(i) == TRUE

\* The event loop picks a suspended task when the running one has yielded.
Resumable(i) == running = None

\* Task i is running between two awaits.
Running(i) == running = Some(i)

Stale(c, now) == {e \in c : ~Live(e, now)}

\* Lines 1072-1076: the task starts and enters blockhash_cache.get().
task_begin(i) ==
    /\ sends[i].pc = "send_transaction"
    /\ Resumable(i)
    /\ running' = Some(i)
    /\ sends' = [sends EXCEPT ![i].pc = "get_scan"]
    /\ UNCHANGED <<clock, netHeight, blockhash_cache>>
    /\ LoopFrame

\* get(), the eviction scan: one expired entry is dropped.
task_get_evict(i) ==
    /\ sends[i].pc = "get_scan"
    /\ Running(i)
    /\ \E e \in Stale(blockhash_cache, clock) :
          blockhash_cache' = blockhash_cache \ {e}
    /\ UNCHANGED <<clock, netHeight, sends, running>>
    /\ LoopFrame

\* get(), the selection once the scan is over; then lines 1086-1094 up to
\* the submit request, or lines 1077-1078 up to the fetch.
task_get_select(i) ==
    /\ sends[i].pc = "get_scan"
    /\ Running(i)
    /\ Stale(blockhash_cache, clock) = {}
    /\ LET g == CacheGet(blockhash_cache, clock)
       IN  sends' = [sends EXCEPT ![i] =
                       IF IsNone(g) THEN [@ EXCEPT !.pc = "blockhash_miss"]
                       ELSE [@ EXCEPT !.recent_blockhash = g, !.pc = "submit"]]
    /\ running' = None
    /\ UNCHANGED <<clock, netHeight, blockhash_cache>>
    /\ LoopFrame

\* Line 1078 returns; line 1079 as far as the entry's insertion.
task_fetch_returns(i) ==
    /\ sends[i].pc = "blockhash_miss"
    /\ Resumable(i)
    /\ running' = Some(i)
    /\ blockhash_cache' = CacheAdd(blockhash_cache, LatestBlockhash.blockhash, clock)
    /\ sends' = [sends EXCEPT ![i] =
                   [@ EXCEPT !.fetched = Some(LatestBlockhash.blockhash),
                             !.pc = "mark"]]
    /\ UNCHANGED <<clock, netHeight>>
    /\ LoopFrame

\* Line 1079, the entry marked used; lines 1080-1094 up to the submit request.
task_mark_used(i) ==
    /\ sends[i].pc = "mark"
    /\ Running(i)
    /\ blockhash_cache' = CacheMarkUsed(blockhash_cache, Val(sends[i].fetched))
    /\ sends' = [sends EXCEPT ![i] =
                   [@ EXCEPT !.recent_blockhash = sends[i].fetched,
                             !.pc = "submit"]]
    /\ running' = None
    /\ UNCHANGED <<clock, netHeight>>
    /\ LoopFrame

\* Line 1094 returns (confirmation skipped); lines 1095-1096 up to the fetch.
task_submit_returns(i) ==
    /\ sends[i].pc = "submit"
    /\ Resumable(i)
    /\ sends' = [sends EXCEPT ![i].pc = "refresh"]
    /\ UNCHANGED <<clock, netHeight, blockhash_cache, running>>
    /\ LoopFrame

\* Line 1096 returns; lines 1097-1098: the entry is added unused.
task_refresh_returns(i) ==
    /\ sends[i].pc = "refresh"
    /\ Resumable(i)
    /\ blockhash_cache' =
          ProcessBlockhashResp(blockhash_cache, LatestBlockhash.blockhash, clock, FALSE)
    /\ sends' = [sends EXCEPT ![i].pc = "done"]
    /\ UNCHANGED <<clock, netHeight, running>>
    /\ LoopFrame

loop_tick ==
    /\ pc = "submissions"
    /\ clock < MaxTime
    /\ \E i \in Calls : sends[i].pc # "done"
    /\ clock' = clock + 1
    /\ UNCHANGED <<netHeight, blockhash_cache, sends, running>>
    /\ LoopFrame

loop_height ==
    /\ pc = "submissions"
    /\ netHeight < MaxHeight
    /\ \E i \in Calls : sends[i].pc # "done"
    /\ netHeight' = netHeight + 1
    /\ UNCHANGED <<clock, blockhash_cache, sends, running>>
    /\ LoopFrame

InitLoop ==
    /\ NotBegun
    /\ NoCall
    /\ calls = <<>>
    /\ twin = <<>>
    /\ netStatus = None
    /\ netHeight = 0
    /\ api = "send_transaction"
    /\ timeout_wanted = None
    /\ pc = "submissions"
    /\ self_commitment = "confirmed"
    /\ opts = None
    /\ arg_recent_blockhash = None
    /\ cache_enabled = TRUE
    /\ txopts_skip_default = TRUE
    /\ blockhash_cache \in InitCaches
    /\ recent_blockhash = None
    /\ st_last_valid_block_height = None
    /\ opts_to_use = None
    /\ wire = None
    /\ submit = "none"
    /\ refresh = "none"
    /\ refreshed = None
    /\ running = None
    /\ sends = [i \in Calls |->
                  [pc |-> "send_transaction", recent_blockhash |-> None,
                   fetched |-> None]]

TaskStep(i) ==
    \/ task_begin(i)
    \/ task_get_evict(i)
    \/ task_get_select(i)
    \/ task_fetch_returns(i)
    \/ task_mark_used(i)
    \/ task_submit_returns(i)
    \/ task_refresh_returns(i)

NextLoop ==
    \/ \E i \in Calls : TaskStep(i)
    \/ loop_tick
    \/ loop_height

SpecLoop == InitLoop /\ [][NextLoop]_vars

\* ------------------------------------------------ two runs, same answers
\* Two runs of confirm_transaction that differ in the commitment argument
\* only, twin.lo and twin.hi, given the same answers: each await of the two
\* runs is answered at the same moment with the same value, as long as both
\* run; when one has ended the other goes on alone.
Runs == {"lo", "hi"}

TwinFrame ==
    UNCHANGED <<inputVars, callVars, cacheOpVars, calls, sends, running, taskVars,
                histVars>>

\* Run c resumed at its pending await, answered by the node as it is now.
RunAfter(c) ==
    CASE c.pc = "confirm_transaction" ->
           \* lines 1165-1168 / 1184-1186
           IF HasCeiling(last_valid_block_height)
             THEN [c EXCEPT !.commitment_rank =
                               CommitmentRank(CommitmentToUse(c.commitment, self_commitment)),
                            !.pc = "height_first"]
             ELSE [c EXCEPT !.commitment_rank =
                               CommitmentRank(CommitmentToUse(c.commitment, self_commitment)),
                            !.timeout = Some(Deadline(clock)),
                            !.pc = "status_wallclock"]
      [] c.pc = "height_first" ->
           \* line 1168 returns, line 1169 (else: line 1181)
           IF HeightLoopCond(netHeight, last_valid_block_height)
             THEN [c EXCEPT !.current_blockheight = Some(netHeight),
                            !.pc = "status_ceiling"]
             ELSE [c EXCEPT !.current_blockheight = Some(netHeight),
                            !.pc = "done", !.outcome = "Expired"]
      [] c.pc = "status_ceiling" ->
           \* line 1170 returns, lines 1171-1178
           IF Qualifies(netStatus, c.commitment_rank)
             THEN [c EXCEPT !.resp = Some(netStatus), !.polls = @ + 1,
                            !.pc = "done", !.outcome = "Confirmed"]
             ELSE [c EXCEPT !.resp = Some(netStatus), !.polls = @ + 1,
                            !.pc = "height_loop"]
      [] c.pc = "height_loop" ->
           \* line 1178 returns, line 1179
           [c EXCEPT !.current_blockheight = Some(netHeight), !.pc = "sleep_ceiling"]
      [] c.pc = "sleep_ceiling" ->
           \* line 1179 returns, line 1169 (else: line 1181)
           IF HeightLoopCond(Val(c.current_blockheight), last_valid_block_height)
             THEN [c EXCEPT !.pc = "status_ceiling"]
             ELSE [c EXCEPT !.pc = "done", !.outcome = "Expired"]
      [] c.pc = "status_wallclock" ->
           \* line 1186 returns, lines 1187-1194
           IF Qualifies(netStatus, c.commitment_rank)
             THEN [c EXCEPT !.resp = Some(netStatus), !.polls = @ + 1,
                            !.pc = "done", !.outcome = "Confirmed"]
             ELSE [c EXCEPT !.resp = Some(netStatus), !.polls = @ + 1,
                            !.pc = "sleep_wallclock"]
      [] c.pc = "sleep_wallclock" ->
           \* line 1194 returns, line 1185 (else: line 1196)
           IF TimeLoopCond(clock, c.timeout)
             THEN [c EXCEPT !.pc = "status_wallclock"]
             ELSE [c EXCEPT !.pc = "done", !.outcome = "TimedOut"]

\* The runs suspended at await p.
RunsAt(p) == {k \in Runs : twin[k].pc = p}

\* The await p of the runs suspended there returns.
twin_resume(p) ==
    /\ RunsAt(p) # {}
    /\ p \in StatusPollPcs => \A k \in RunsAt(p) : twin[k].polls < MaxPolls
    /\ twin' = [k \in Runs |-> IF k \in RunsAt(p) THEN RunAfter(twin[k]) ELSE twin[k]]
    /\ UNCHANGED netVars
    /\ TwinFrame

\* The pending request of the runs still running raises.
twin_request_fails ==
    /\ \E p \in ConfirmRequestPcs : RunsAt(p) # {}
    /\ twin' = [k \in Runs |->
                  IF twin[k].pc \in ConfirmRequestPcs
                    THEN [twin[k] EXCEPT !.pc = "done", !.outcome = "NetworkError"]
                    ELSE twin[k]]
    /\ UNCHANGED netVars
    /\ TwinFrame

twin_tick ==
    /\ pc = "twin"
    /\ \/ RunsAt("confirm_transaction") # {} /\ clock < MaxClock /\ clock' = clock + 1
       \/ \E k \in RunsAt("sleep_wallclock") :
             clock < Val(twin[k].timeout) /\ clock' = Val(twin[k].timeout)
    /\ UNCHANGED <<netStatus, netHeight, twin>>
    /\ TwinFrame

twin_height ==
    /\ pc = "twin"
    /\ RunsAt("height_first") \cup RunsAt("height_loop") # {}
    /\ netHeight <= Val(last_valid_block_height)
    /\ netHeight' = netHeight + 1
    /\ UNCHANGED <<clock, netStatus, twin>>
    /\ TwinFrame

twin_status ==
    /\ pc = "twin"
    /\ RunsAt("status_ceiling") \cup RunsAt("status_wallclock") # {}
    /\ \E s \in Statuses \ {netStatus} : netStatus' = s
    /\ UNCHANGED <<clock, netHeight, twin>>
    /\ TwinFrame

RunPcs == {"confirm_transaction"} \cup ConfirmPcs

\* A run before it begins.
NewRun(c) ==
    [pc |-> "confirm_transaction", commitment |-> Some(c), commitment_rank |-> 0,
     current_blockheight |-> None, timeout |-> None, resp |-> None,
     outcome |-> "none", polls |-> 0]

InitTwin ==
    /\ NotBegun
    /\ NoSend
    /\ calls = <<>>
    /\ sends = <<>>
    /\ running = None
    /\ netStatus = None
    /\ netHeight = 0
    /\ api = "confirm_transaction"
    /\ timeout_wanted = None
    /\ pc = "twin"
    /\ self_commitment = "confirmed"
    /\ tx_sig = Some(Signature(PrepareWire(NewTxn, 0)))
    /\ commitment = None
    /\ sleep_seconds = SLEEP_SECONDS_DEFAULT
    /\ last_valid_block_height \in {None, Some(1)}
    /\ \E c1, c2 \in Commitments :
          /\ CommitmentRank(c1) <= CommitmentRank(c2)
          /\ twin = [k \in Runs |-> IF k = "lo" THEN NewRun(c1) ELSE NewRun(c2)]

NextTwin ==
    \/ \E p \in RunPcs : twin_resume(p)
    \/ twin_request_fails
    \/ twin_tick
    \/ twin_height
    \/ twin_status

SpecTwin == InitTwin /\ [][NextTwin]_vars

\* ------------------------------------------------------------------ claims
Done == pc = "done"

LastPollReached == lastPolled # None /\ ReachedRank(Val(lastPolled))

HeightFetchedAboveCeiling ==
    /\ CeilingMode
    /\ current_blockheight # None
    /\ Val(current_blockheight) > Val(last_valid_block_height)

\* C1: confirm_transaction returns normally only if its final status poll
\* answered a non-null entry with a non-null confirmation status of rank >=
\* the target's; polls that all answer none never end Confirmed.
C1_NoFalsePositive ==
    outcome = "Confirmed" =>
        /\ lastPolled # None
        /\ Val(lastPolled) # None
        /\ Val(Val(lastPolled)).confirmation_status # None
        /\ CommitmentRank(Val(Val(Val(lastPolled)).confirmation_status))
             >= CommitmentRank(TargetCommitment)

C1_Witness ==
    /\ Done
    /\ outcome = "Confirmed"
    /\ Val(Val(returned)).confirmation_status = Some("confirmed")
    /\ TargetCommitment = "confirmed"

\* C2 as stated: whenever the ledger height passes the ceiling on the network
\* before any status of rank >= target appears there, the call ends Expired
\* (runs ended by a failed request left aside).
C2_Original ==
    (Done /\ expiredFirst /\ ~failed) => outcome = "Expired"

\* C2 amended: in ceiling mode the call ends Expired exactly when a ledger
\* height it fetched is above the ceiling; from that fetch on it issues no
\* request (it only finishes the sleep it is in).
C2_ExpiredOnFetchedHeight ==
    /\ HeightFetchedAboveCeiling =>
         /\ pc \in {"sleep_ceiling", "done"}
         /\ Done => outcome = "Expired"
    /\ outcome = "Expired" => HeightFetchedAboveCeiling

C2_Witness ==
    /\ Done
    /\ outcome = "Expired"
    /\ lastPolled # None
    /\ ~everQual

\* C3 as stated: if the node starts to report (and keeps reporting) a status
\* of rank >= target before the height passes the ceiling, or before the 30 s
\* are over, the call ends Confirmed (runs ended by a failed request aside).
C3_Original ==
    (Done /\ qualInTime /\ ~failed) => outcome = "Confirmed"

\* C3 amended: as soon as a status poll of the call answers rank >= target
\* the call ends Confirmed, and the response it returns is the answer of that
\* poll, the last one it made.
C3_ConfirmedOnQualifyingPoll ==
    /\ LastPollReached => (Done /\ outcome = "Confirmed")
    /\ outcome = "Confirmed" => (returned # None /\ returned = lastPolled)

C3_Witness ==
    /\ Done
    /\ outcome = "Confirmed"
    /\ returned = lastPolled
    /\ qualInTime
    /\ CeilingMode

\* C4 as stated, no ceiling: no poll answering rank >= target means TimedOut,
\* and a status that first appears at second 29 of the budget (and stays)
\* means Confirmed (runs ended by a failed request aside).
C4_Original ==
    (Done /\ ~CeilingMode /\ ~failed) =>
        /\ ~LastPollReached => outcome = "TimedOut"
        /\ at29 => outcome = "Confirmed"

\* C4 amended, no ceiling: the call ends TimedOut exactly when no poll of it
\* answered rank >= target and no request failed, and not before 30 s have
\* passed since it began; a status appearing at second 29 gives Confirmed
\* only if a poll is answered after it appeared.
C4_TimedOutAfterBudget ==
    (Done /\ ~CeilingMode) =>
        /\ outcome = "TimedOut" <=> (~failed /\ ~LastPollReached)
        /\ outcome = "TimedOut" => clock >= Val(entryClock) + TIMEOUT_SECONDS
        /\ (at29 /\ LastPollReached) => outcome = "Confirmed"

C4_Witness ==
    /\ Done
    /\ outcome = "TimedOut"
    /\ last_valid_block_height = None
    /\ at29

\* C5: a call given a ceiling ends Confirmed, Expired or NetworkError, never
\* TimedOut; a call given none ends Confirmed, TimedOut or NetworkError, never
\* Expired, and never asks for the ledger height.
C5_Original ==
    Done =>
        IF last_valid_block_height # None
          THEN outcome \in {"Confirmed", "Expired", "NetworkError"}
          ELSE /\ outcome \in {"Confirmed", "TimedOut", "NetworkError"}
               /\ current_blockheight = None

\* C6: a request of the call that fails ends the call at once with
\* NetworkError; the call takes no step (no request, no sleep) afterwards.
C6_NetworkErrorPropagates ==
    [][/\ failed' => (pc' = "done" /\ outcome' = "NetworkError")
       /\ failed => UNCHANGED <<taskVars, entryClock, lastPolled>>]_vars

C6_Witness ==
    /\ failed
    /\ Done
    /\ outcome = "NetworkError"
    /\ lastPolled # None

\* C7 as stated: if requests return and time advances, the call terminates.
C7_Original == <>Done

\* C7 amended: if requests return and time advances, the call terminates
\* unless, in ceiling mode, the ledger height stays at or below the ceiling
\* for ever; it ends in exactly one of the four outcomes.
C7_Terminates ==
    \/ <>(Done /\ outcome \in Outcomes)
    \/ <>[](CeilingMode /\ netHeight <= Val(last_valid_block_height))

C7_Witness ==
    /\ Done
    /\ outcome \in Outcomes
    /\ CeilingMode
    /\ netHeight > Val(last_valid_block_height)

\* C8: in send_transaction the blockhash is attached before the transaction
\* is signed and serialized (the signatures of the submitted bytes cover the
\* blockhash they carry, the one the call chose), and the refresh fetch is
\* issued, and its blockhash inserted, only after the submit request has
\* completed.
C8_AttachBeforeSignRefreshAfterSubmit ==
    /\ (api = "send_transaction" /\ submit # "none") =>
         /\ recent_blockhash # None
         /\ Val(wire).recent_blockhash = recent_blockhash
         /\ Val(wire).signed_over = Some(Val(wire).recent_blockhash)
    /\ refresh # "none" => submit = "done"
    /\ refreshed # None => (submit = "done" /\ refresh = "done")

C8_Witness ==
    /\ api = "send_transaction"
    /\ Done
    /\ refresh = "done"
    /\ recent_blockhash # None
    /\ refreshed # recent_blockhash
    /\ outcome = "Confirmed"

\* The blockhash the call used / the refresh fetched is in the cache.
UsedIsMarked ==
    \E e \in blockhash_cache : e.blockhash = Val(recent_blockhash) /\ e.used

NewUnusedPresent ==
    \E e \in blockhash_cache :
        /\ e.blockhash = Val(refreshed)
        /\ e.blockhash # Val(recent_blockhash)
        /\ ~e.used

\* C9: cache enabled, blockhash from the cache or the fallback fetch: when
\* send_transaction has returned, the cache holds the blockhash it used
\* marked used, and a new unused blockhash inserted by the refresh.
C9_Original ==
    (/\ api = "send_transaction"
     /\ cache_enabled
     /\ arg_recent_blockhash = None
     /\ Done
     /\ result = "returned") => (UsedIsMarked /\ NewUnusedPresent)

\* C10: cache enabled: a send_transaction call whose submit request was
\* answered has, when it ends, fetched a new blockhash and inserted it,
\* however the confirmation ended.
C10_Original ==
    (/\ api = "send_transaction"
     /\ cache_enabled
     /\ submit = "done"
     /\ Done) => refresh # "none"

\* The call took the fallback fetch of lines 1077-1080: the cache is enabled
\* and a last valid height was recorded.
FellBack ==
    /\ api = "send_transaction"
    /\ cache_enabled
    /\ st_last_valid_block_height # None

\* C11: cache enabled, no recent_blockhash given: when blockhash_cache.get()
\* finds no blockhash younger than the ttl the call does not end with that
\* error: it fetches the latest blockhash from the node, and the blockhash of
\* that fetch is the one the transaction carries and is in the cache, marked
\* used.
C11_EmptyCacheRecovered ==
    (api = "send_transaction" /\ cache_enabled /\ arg_recent_blockhash = None) =>
        /\ result \in {"pending", "returned"} \cup Outcomes
        /\ (pc # "send_transaction" /\ recent_blockhash = None) =>
               \/ pc = "blockhash_miss"
               \/ Done /\ result = "NetworkError" /\ submit = "none"
        /\ FellBack =>
               /\ recent_blockhash = Some(Val(st_last_valid_block_height) - ValidBlocks)
               /\ Val(wire).recent_blockhash = recent_blockhash
               /\ UsedIsMarked

C11_Witness ==
    /\ FellBack
    /\ Done
    /\ result = "returned"
    /\ UsedIsMarked
    /\ Val(wire).recent_blockhash = recent_blockhash

\* The submit request was answered, and the options say to skip (or not to
\* skip) the confirmation.
Submitted == submit = "done"

SkipConfirmation == Val(opts_to_use).skip_confirmation

\* C12: after the submit request is answered, send_raw_transaction calls
\* confirm_transaction exactly once, with the signature of the submitted
\* bytes and the commitment of the options as target, and returns only after
\* that call returned; with skip_confirmation set it makes no such call: no
\* status poll and no ledger-height query.
C12_ConfirmOnceUnlessSkipped ==
    /\ confirms <= 1
    /\ confirms = 1 =>
          /\ Submitted /\ ~SkipConfirmation
          /\ tx_sig = Some(Signature(Val(wire)))
          /\ commitment = Some(Val(opts_to_use).preflight_commitment)
          /\ commitment_rank = CommitmentRank(Val(opts_to_use).preflight_commitment)
    /\ (Submitted /\ ~SkipConfirmation) =>
          /\ pc # "confirm_transaction" => confirms = 1
          /\ (result = "returned" \/ pc = "refresh") => outcome = "Confirmed"
    /\ (Submitted /\ SkipConfirmation) =>
          /\ confirms = 0
          /\ pc \notin ConfirmPcs \cup {"confirm_transaction"}
          /\ lastPolled = None
          /\ current_blockheight = None

C12_Witness ==
    /\ api = "send_raw_transaction"
    /\ Done
    /\ result = "returned"
    /\ ~SkipConfirmation
    /\ confirms = 1
    /\ Val(commitment) = "finalized"
    /\ outcome = "Confirmed"

\* C13: when send_transaction fetched the blockhash itself (no cache, or a
\* cache miss) and confirms, the ceiling confirm_transaction is called with
\* is the last valid block height of that fetch, opts given or not.
C13_Original ==
    (/\ api = "send_transaction"
     /\ st_last_valid_block_height # None
     /\ confirms = 1) => last_valid_block_height = st_last_valid_block_height

\* What the last get() found: the entries younger than the ttl, the unused
\* ones among them, and the entry it returned.
Young == {e \in cacheBefore : clock - e.observedAt < TTL}

YoungUnused == {e \in Young : ~e.used}

Picked == CHOOSE e \in cacheBefore : e.blockhash = Val(got)

\* C14: whatever adds, markUseds and gets came before and however much time
\* passed, get() returns a blockhash of the cache that is younger than the
\* ttl, and fails exactly when the cache holds no such blockhash.
C14_NeverOlderThanTtl ==
    op = "get" =>
        IF Young = {} THEN got = None
        ELSE /\ got # None
             /\ \E e \in cacheBefore :
                   /\ e.blockhash = Val(got)
                   /\ clock - e.observedAt < TTL

C14_Witness ==
    /\ op = "get"
    /\ got = None
    /\ \E e \in cacheBefore : clock - e.observedAt = TTL

\* C15: get() returns the unused entry younger than the ttl with the
\* smallest observedAt, and if there is no such unused entry the used one with
\* the smallest observedAt.
C15_OldestUnusedElseOldestUsed ==
    (op = "get" /\ got # None) =>
        /\ Picked \in Young
        /\ IF YoungUnused # {}
             THEN /\ Picked \in YoungUnused
                  /\ \A f \in YoungUnused : Picked.observedAt <= f.observedAt
             ELSE \A f \in Young : Picked.observedAt <= f.observedAt

C15_Witness ==
    /\ op = "get"
    /\ got # None
    /\ \E e, f \in YoungUnused :
          /\ e.observedAt < f.observedAt
          /\ e.blockhash = Val(got)
    /\ cacheBefore # blockhash_cache

\* The last blockhash marked used is still in the cache, used and younger
\* than the ttl, and the cache holds no unused blockhash younger than the ttl.
MarkedStillThere ==
    /\ lastMarked # None
    /\ \E t \in Young : t.blockhash = Val(lastMarked) /\ t.used
    /\ YoungUnused = {}

MarkedIsOldest ==
    \A t, f \in Young :
        (t.blockhash = Val(lastMarked) /\ f # t) => t.observedAt < f.observedAt

\* C16 as stated: after markUsed(t), while t is in the cache and no unused
\* entry is, every get() returns t, and it leaves the cache as it was.
C16_Original ==
    (op = "get" /\ MarkedStillThere) =>
        /\ got = lastMarked
        /\ blockhash_cache = cacheBefore

\* What C16 as amended asks of the state a get() leaves.
ReselectsOldest ==
    op = "get" =>
        /\ blockhash_cache = Young
        /\ (MarkedStillThere /\ MarkedIsOldest) => got = lastMarked

\* C16 amended: after markUsed(t), while t is in the cache, no unused entry
\* is, and t is the oldest entry younger than the ttl, every get() returns
\* t; a get() changes the cache only by discarding the entries that are not
\* younger than the ttl, and a get() right after a get() returns the same
\* blockhash and leaves the cache as it was.
C16_ReselectsOldestUsed ==
    [][/\ ReselectsOldest'
       /\ (op = "get" /\ op' = "get") =>
             (got' = got /\ blockhash_cache' = blockhash_cache)]_vars

C16_Witness ==
    /\ op = "get"
    /\ MarkedStillThere
    /\ MarkedIsOldest
    /\ got = lastMarked
    /\ Cardinality(Young) = 2
    /\ cacheBefore # blockhash_cache

\* C17: the wall-clock budget of a confirmation without ceiling is the one
\* the caller configured for that call: the deadline is the time of entry
\* plus the budget the caller wants.
C17_Original ==
    (timeout # None /\ timeout_wanted # None) =>
        Val(timeout) = Val(entryClock) + Val(timeout_wanted)

\* C18: a cancellation at any await of confirm_transaction ends the call at
\* once; the blockhash cache is then as it was when confirm_transaction
\* began (no refresh follows), and the task takes no further step: no request
\* and no sleep.
C18_CancellationStopsAndSparesCache ==
    [][/\ cancelled' => /\ pc' = "done"
                        /\ blockhash_cache' = Val(cacheAtWait')
                        /\ refresh' = "none"
       /\ cancelled => UNCHANGED taskVars]_vars

C18_Witness ==
    /\ cancelled
    /\ Done
    /\ api = "send_transaction"
    /\ cache_enabled
    /\ blockhash_cache # {}
    /\ blockhash_cache = Val(cacheAtWait)
    /\ lastPolled # None

\* "status s has a rank at or above the target call c was asked to reach"
ReachedOwnTarget(s, c) ==
    /\ s # None
    /\ Val(s).confirmation_status # None
    /\ CommitmentRank(Val(Val(s).confirmation_status))
         >= CommitmentRank(CommitmentToUse(c.commitment, self_commitment))

\* The last poll of call c reached the target of call c.
OwnPollReached(c) == c.resp # None /\ ReachedOwnTarget(Val(c.resp), c)

\* The outcome of call c follows from its own arguments and from what the
\* node answered to it.
OwnOutcome(c) ==
    /\ c.pc # "done" => ~OwnPollReached(c)
    /\ c.outcome = "Confirmed" => OwnPollReached(c) /\ c.returned = c.resp
    /\ c.outcome = "Expired" =>
          /\ HasCeiling(c.last_valid_block_height)
          /\ Val(c.current_blockheight) > Val(c.last_valid_block_height)
          /\ ~OwnPollReached(c)
    /\ c.outcome = "TimedOut" =>
          /\ ~HasCeiling(c.last_valid_block_height)
          /\ clock >= Val(c.timeout)
          /\ ~OwnPollReached(c)

\* C19: concurrent confirm_transaction calls are independent.  A step of one
\* call changes the locals of that call only, never another call's locals and
\* never the blockhash cache, and in every interleaving each call ends as its
\* own arguments and the node's answers to it dictate: Confirmed exactly on
\* its own poll reaching its own target, returning that poll; Expired on its
\* own height above its own ceiling; TimedOut on its own deadline.
C19_ConcurrentConfirmsIndependent ==
    [][/\ blockhash_cache' = blockhash_cache
       /\ \A i \in Calls :
             /\ calls'[i] # calls[i] =>
                   \A j \in Calls \ {i} : calls'[j] = calls[j]
             /\ OwnOutcome(calls'[i])]_vars

\* One call has confirmed at its target while the other, given the very same
\* answer, is still waiting for its higher target.
C19_Witness ==
    /\ pc = "concurrent"
    /\ \E i, j \in Calls :
          /\ calls[i].outcome = "Confirmed"
          /\ calls[i].commitment = Some("processed")
          /\ calls[j].commitment = Some("finalized")
          /\ calls[j].pc \in {"sleep_wallclock", "height_loop"}
          /\ calls[j].resp = calls[i].returned
          /\ blockhash_cache # {}

\* Task t is inside a cache operation: the scan of get() has begun and the
\* selection is to come, or the fetched entry is inserted and not yet marked.
InCacheOp(t) == t.pc \in {"get_scan", "mark"}

\* Task t is suspended at a network request, has not begun or has returned.
AtSuspension(t) ==
    t.pc \in {"send_transaction", "blockhash_miss", "submit", "refresh", "done"}

\* C20: cache operations of concurrent send_transaction calls are serialized.
\* Whenever one call takes a step, every other call is suspended at a network
\* request (or has not begun, or has returned) and none is inside a cache
\* operation; and whenever no call is running, no cache operation is half
\* done, so no call sees a half-evicted or half-inserted cache.
C20_CacheOperationsSerialized ==
    [][/\ \A i \in Calls :
             sends'[i] # sends[i] =>
                \A j \in Calls \ {i} :
                   AtSuspension(sends[j]) /\ ~InCacheOp(sends[j])
       /\ blockhash_cache' # blockhash_cache =>
             \A j \in Calls : InCacheOp(sends[j]) => Running(j)
       /\ running' = None => \A j \in Calls : ~InCacheOp(sends'[j])]_vars

\* One call has inserted its fetched blockhash and not yet marked it, while
\* the other is suspended at its submit request.
C20_Witness ==
    /\ pc = "submissions"
    /\ \E i, j \in Calls :
          /\ sends[i].pc = "mark"
          /\ Running(i)
          /\ \E e \in blockhash_cache :
                e.blockhash = Val(sends[i].fetched) /\ ~e.used
          /\ sends[j].pc = "submit"
          /\ sends[j].recent_blockhash # None

\* C21: no automatic resubmission.  A send method hands the transaction to
\* the node at most once: the submit request is issued only while none has
\* been issued, an answered or failed submit request stays as it is, the
\* bytes handed over never change; and a confirmation that fails (Expired,
\* TimedOut, NetworkError) ends the method with that failure as its result.
C21_NoResubmission ==
    [][/\ (submit' = "issued" /\ submit # "issued") => submit = "none"
       /\ submit \in {"done", "failed"} => submit' = submit
       /\ submit # "none" => wire' = wire
       /\ outcome' \in Outcomes \ {"Confirmed"} =>
             pc' = "done" /\ result' = outcome']_vars

\* A send whose confirmation ended Expired after polls, reported as such.
C21_Witness ==
    /\ api \in {"send_transaction", "send_raw_transaction"}
    /\ submit = "done"
    /\ outcome = "Expired"
    /\ result = "Expired"
    /\ pc = "done"
    /\ lastPolled # None

\* The pending status poll is answered in this step.
PollAnswered == pc \in StatusPollPcs /\ lastPolled' = Some(netStatus) /\ pc' # pc

\* C22: check-then-sleep ordering.  A poll once started decides on its answer
\* alone: an answer at or above the target ends the call Confirmed with that
\* answer, whatever the clock and the ledger height have become meanwhile.
\* And every sleep comes after a poll of the same iteration, whose answer was
\* below the target.
C22_CheckThenSleep ==
    [][/\ PollAnswered /\ ReachedRank(netStatus) =>
             outcome' = "Confirmed" /\ returned' = Some(netStatus)
       /\ pc' \in SleepPcs \cup {"height_loop"} =>
             lastPolled' # None /\ ~ReachedRank(Val(lastPolled'))]_vars

\* Confirmed by a poll started before the deadline and answered at it.
C22_Witness ==
    /\ outcome = "Confirmed"
    /\ ~CeilingMode
    /\ timeout # None
    /\ clock >= Val(timeout)
    /\ returned = lastPolled

\* The integer rank an answer reports; none for a missing entry or status.
ReportedRank(s) ==
    IF s = None \/ Val(s).confirmation_status = None THEN 0 - 1
    ELSE CommitmentRank(Val(Val(s).confirmation_status))

\* C23: the rank comparison alone decides, in both loops alike.  Whenever a
\* status poll is answered, in the ceiling loop or in the wall-clock loop,
\* the call ends Confirmed exactly if the rank the answer reports is at or
\* above the rank of the target; the execution error the entry may carry
\* plays no part.
C23_RankAloneDecides ==
    [][PollAnswered /\ failed' = failed =>
          (outcome' = "Confirmed"
             <=> ReportedRank(netStatus) >= CommitmentRank(TargetCommitment))]_vars

\* Confirmed on an entry that carries an execution error.
C23_Witness ==
    /\ outcome = "Confirmed"
    /\ returned = lastPolled
    /\ Val(Val(returned)).err # None
    /\ Val(Val(returned)).confirmation_status = Some(TargetCommitment)

\* The loop condition of the ceiling loop is evaluated in this step: the
\* first height fetch is answered, or a sleep of the loop ends.
CeilingTested ==
    /\ pc \in {"height_first", "sleep_ceiling"}
    /\ pc' # pc
    /\ failed' = failed

\* C24: the ceiling is inclusive.  Whenever the ceiling loop tests its
\* condition, a status poll is started if the height fetched last is at or
\* below the ceiling, the ceiling itself included, and the call ends Expired
\* otherwise; Expired is never raised but on a fetched height strictly above
\* the ceiling.
C24_CeilingInclusive ==
    [][/\ CeilingTested =>
             IF Val(current_blockheight') <= Val(last_valid_block_height)
               THEN pc' = "status_ceiling" /\ outcome' = "none"
               ELSE pc' = "done" /\ outcome' = "Expired"
       /\ outcome' = "Expired" =>
             Val(current_blockheight') > Val(last_valid_block_height)]_vars

\* Confirmed by a poll made on a fetched height equal to the ceiling.
C24_Witness ==
    /\ outcome = "Confirmed"
    /\ CeilingMode
    /\ current_blockheight = last_valid_block_height
    /\ lastPolled = returned

\* The task leaves the await it is suspended at, the request not failing.
Resumed(at) == pc = at /\ pc' # pc /\ failed' = failed

\* C25: the iteration protocol of the ceiling loop.  The call begins with one
\* height fetch, whose answer the loop condition is first tested on.  A poll
\* answered below the target is followed by one height fetch, the fetch by
\* one sleep of at least the poll interval, and the sleep by the test of the
\* loop condition on the height that fetch gave (the next poll, or Expired).
\* A poll answered at or above the target ends the call at once: no height is
\* fetched and no sleep is made after it.
C25_CeilingIteration ==
    [][/\ (Resumed("confirm_transaction") /\ CeilingMode) =>
             pc' = "height_first" /\ lastPolled' = None
       /\ Resumed("height_first") =>
             /\ current_blockheight' = Some(netHeight)
             /\ pc' \in {"status_ceiling", "done"}
             /\ lastPolled' = None
       /\ Resumed("status_ceiling") =>
             /\ lastPolled' = Some(netStatus)
             /\ current_blockheight' = current_blockheight
             /\ IF ReachedRank(netStatus)
                  THEN pc' = "done" /\ outcome' = "Confirmed"
                  ELSE pc' = "height_loop"
       /\ Resumed("height_loop") =>
             /\ current_blockheight' = Some(netHeight)
             /\ lastPolled' = lastPolled
             /\ pc' = "sleep_ceiling"
             /\ waited' = 0
       /\ Resumed("sleep_ceiling") =>
             /\ waited >= sleep_seconds
             /\ current_blockheight' = current_blockheight
             /\ lastPolled' = lastPolled
             /\ IF Val(current_blockheight) <= Val(last_valid_block_height)
                  THEN pc' = "status_ceiling"
                  ELSE pc' = "done" /\ outcome' = "Expired"]_vars

\* A second iteration has begun after a whole first one with a real sleep.
C25_Witness ==
    /\ pc = "status_ceiling"
    /\ CeilingMode
    /\ lastPolled # None
    /\ sleep_seconds > 0
    /\ current_blockheight = Some(netHeight)
    /\ netHeight > 0

\* C26: in ceiling mode, if the height fetched at entry is already above the
\* ceiling, the call ends Expired at once and no status poll is ever made,
\* whatever the node would answer for the signature.
C26_ExpiredAtEntryWithoutPoll ==
    [][(Resumed("height_first") /\ netHeight > Val(last_valid_block_height)) =>
          /\ pc' = "done"
          /\ outcome' = "Expired"
          /\ result' = "Expired"
          /\ lastPolled' = None
          /\ resp' = None]_vars

\* Expired at entry although the node reports the target rank.
C26_Witness ==
    /\ Done
    /\ outcome = "Expired"
    /\ lastPolled = None
    /\ ReachedRank(netStatus)
    /\ everQual

\* C27: a ceiling of 0 is treated as no ceiling.  A call given
\* last_valid_block_height = 0 runs the wall-clock loop with the deadline 30
\* seconds after its entry, never fetches the ledger height, and never ends
\* Expired.
C27_ZeroCeilingIsNoCeiling ==
    last_valid_block_height = Some(0) =>
        /\ pc \notin CeilingPcs
        /\ current_blockheight = None
        /\ outcome # "Expired"
        /\ pc # "confirm_transaction" =>
              /\ timeout = Some(Val(entryClock) + TIMEOUT_SECONDS)
              /\ pc \in WallclockPcs \cup {"done"}

\* Given the ceiling 0, timed out with the ledger well above 0.
C27_Witness ==
    /\ last_valid_block_height = Some(0)
    /\ Done
    /\ outcome = "TimedOut"
    /\ netHeight > 0
    /\ lastPolled # None

\* send_transaction hands the transaction to send_raw_transaction in this
\* step, which issues the submit request.
Submits == api = "send_transaction" /\ submit = "none" /\ submit' = "issued"

\* send_transaction called without opts has recorded no last valid height.
NoCeilingRecorded ==
    /\ api = "send_transaction"
    /\ opts = None
    /\ submit # "none"
    /\ st_last_valid_block_height = None

\* C28: send_transaction takes a ceiling only from a blockhash fetch of its
\* own.  Submitting right from its start (the caller's recent_blockhash or a
\* cache hit) it records no last valid height; submitting on the answer of
\* its own fetch it records the one of that answer.  With no height recorded
\* and no opts given, the options it builds carry no ceiling, and the
\* confirmation of the submission runs the wall-clock loop with its 30-second
\* deadline: no height is fetched and the call never ends Expired.
C28_CeilingOnlyFromOwnFetch ==
    [][/\ (Submits /\ pc = "send_transaction") =>
             /\ st_last_valid_block_height' = None
             /\ recent_blockhash' =
                    IF arg_recent_blockhash # None THEN arg_recent_blockhash
                    ELSE CacheGet(blockhash_cache, clock)
       /\ (Submits /\ pc \in {"blockhash_miss", "blockhash_nocache"}) =>
             /\ recent_blockhash' = Some(netHeight)
             /\ st_last_valid_block_height' = Some(netHeight + ValidBlocks)
       /\ NoCeilingRecorded' =>
             /\ Val(opts_to_use').last_valid_block_height = None
             /\ last_valid_block_height' = None
             /\ pc' \notin CeilingPcs
             /\ current_blockheight' = None
             /\ outcome' # "Expired"
             /\ timeout' # None =>
                   timeout' = Some(Val(entryClock') + TIMEOUT_SECONDS)]_vars

\* A cache hit, then a confirmation that timed out.
C28_Witness ==
    /\ NoCeilingRecorded
    /\ cache_enabled
    /\ arg_recent_blockhash = None
    /\ recent_blockhash # None
    /\ outcome = "TimedOut"
    /\ lastPolled # None

\* C29: monotonicity in the target rank.  Of two runs given the same answers
\* and the same deadline, the one with the lower target rank ends Confirmed
\* whenever the one with the higher target rank does, and after no more
\* status polls.
C29_MonotoneInTargetRank ==
    (pc = "twin" /\ twin["hi"].outcome = "Confirmed") =>
        /\ twin["lo"].outcome = "Confirmed"
        /\ twin["lo"].polls <= twin["hi"].polls

\* The higher target confirmed one poll after the lower one.
C29_Witness ==
    /\ pc = "twin"
    /\ twin["hi"].outcome = "Confirmed"
    /\ twin["lo"].outcome = "Confirmed"
    /\ twin["lo"].polls < twin["hi"].polls
    /\ twin["lo"].commitment_rank < twin["hi"].commitment_rank
====
